---- MODULE Spec2Model ----
(***************************************************************************)
(* State-machine model of experiment_manager.py: main() and the functions  *)
(* it calls (check_compatibility_between_agent_and_sim, get_episodes,      *)
(* run_episode, log_timing_info).  One action per peer exchange or         *)
(* statement group; an exchange that raises unwinds through the except and *)
(* finally clauses of the source in the same step.  notice_thread and its  *)
(* background thread are modelled on their own (NoticeSpec); in main the   *)
(* calls it protects are single steps.                                     *)
(***************************************************************************)
EXTENDS Integers, Sequences, FiniteSets, TLC

\* ---------------------------------------------------------------- bounds
\* max_failures of the configuration ranges over 0..MaxFailuresCfg
MaxFailuresCfg == 2
\* episode_length_s of the configuration (in units of one second)
EpisodeLengthCfg == 2
\* physics_dt of the configuration (in units of one second)
PhysicsDtCfg == 1
\* episodes_per_scenario of the configuration ranges over 1..MaxEpisodesPerScenario
MaxEpisodesPerScenario == 2
\* the scenario maker stops before the pending queue would exceed MaxPending specs
MaxPending == 2
\* stop is set before the background thread of notice_thread has logged more
\* than MaxNoticeLines lines
MaxNoticeLines == 2

\* ------------------------------------------------------------ input sets
Robot(n, p) == [robot_name |-> n, playable |-> p]

\* Scenarios the scenario maker can answer with (it may repeat one).
Catalogue ==
  { [scenario_name |-> "loop",
     robots |-> << Robot("npc0", FALSE), Robot("ego", TRUE), Robot("npc1", FALSE) >>],
    [scenario_name |-> "city",
     robots |-> << Robot("ego", TRUE) >>],
    [scenario_name |-> "duel",
     robots |-> << Robot("ego0", TRUE), Robot("ego1", TRUE) >>] }

\* What a failing peer exchange or collaborator call raises.
ExcKinds == {"RemoteNodeAborted", "Exception"}

Peers == {"agent", "sim", "sm"}

\* Key lists of the stats dictionary built from what read_and_draw returns
\* (lines 157-167), in insertion order: the evaluated rules may or may not
\* yield the second metric for an episode.
MetricPathLists == { << "deviation" >>, << "deviation", "survival_time" >> }

\* agents = [agent_ci]
agents == << "agent" >>

VARIABLES
  config,          \* MyConfig, read once from the environment
  pc,              \* position in main / run_episode
  chan,            \* chan[p]: state of peer channel p and how often it was closed
  node_protocol,   \* agent_ci.node_protocol after introspection
  episodes,        \* the pending queue
  queue0,          \* the list get_episodes() returned
  scenarios_seen,  \* number of scenarios received by iterate_scenarios
  nfailures,
  attempt_i,
  per_episode,     \* episode_name -> attempt whose statistics are stored, and their keys
  stats,           \* keys of the stats dictionary of the latest evaluated attempt
  scores,          \* scores reported with cie.set_score
  final_dirs,      \* directories log_dir/<episode_name>
  attempt_dirs,    \* directories attempts/<episode_name>.attempt<K> with their files
  fw_open,         \* attempts whose log write handle is open
  current_sim_time,
  ri,              \* index of the robot (or agent) the current loop is at
  sent,            \* messages written to peers and to the log in this attempt
  iterBase,        \* Len(sent) when the current step-loop iteration began
  timing_log,      \* step indices of the timing_information records in the log
  length_s,        \* run_episode's return value of the current attempt
  history,         \* attempts that reached the acceptance test
  error,           \* exception class that reached main's caller ("none" if none)
  cause,           \* where the propagating exception was raised, and its kind
  notice_pc,       \* position of the calling thread in notice_thread
  child_pc,        \* position of thread t in notice_thread_child
  stop,            \* the flag of notice_thread read through stop_condition
  outcome,         \* how the call protected by notice_thread ended
  notice_log,      \* lines logged by notice_thread and notice_thread_child
  sleeps_after_stop \* time.sleep calls of the child that ended after stop was set

vars == << config, pc, chan, node_protocol, episodes, queue0,
           scenarios_seen, nfailures, attempt_i, per_episode, stats, scores,
           final_dirs, attempt_dirs, fw_open, current_sim_time, ri, sent, iterBase,
           timing_log, length_s, history, error, cause,
           notice_pc, child_pc, stop, outcome, notice_log, sleeps_after_stop >>

\* groups for UNCHANGED
noticeVars == << notice_pc, child_pc, stop, outcome, notice_log, sleeps_after_stop >>
mainVars == << config, pc, chan, node_protocol, episodes, queue0,
               scenarios_seen, nfailures, attempt_i, per_episode, stats, scores,
               final_dirs, attempt_dirs, fw_open, current_sim_time, ri, sent, iterBase,
               timing_log, length_s, history, error, cause >>
queueVars == << episodes, queue0, scenarios_seen, nfailures, attempt_i, per_episode,
               stats, scores, history >>
fsVars == << final_dirs, attempt_dirs, fw_open >>
episodeVars == << current_sim_time, ri, sent, iterBase, timing_log, length_s >>

\* ------------------------------------------------------------- helpers
EpisodeName(scenario_name, i) == << scenario_name, i >>

Msg(to, topic, robot, reply) == [to |-> to, topic |-> topic, robot |-> robot, reply |-> reply]

NoCause == [site |-> "none", kind |-> "none"]

Close(ch, p) == [ch EXCEPT ![p] = [state |-> "closed", closes |-> ch[p].closes + 1]]

\* Names of the robots whose playable flag is p, in scenario order (lines 264-265).
RECURSIVE SelectRobots(_, _)
SelectRobots(robots, p) ==
  IF robots = << >> THEN << >>
  ELSE IF Head(robots).playable = p
       THEN << Head(robots).robot_name >> \o SelectRobots(Tail(robots), p)
       ELSE SelectRobots(Tail(robots), p)

playable_robots(scenario) == SelectRobots(scenario.robots, TRUE)
not_playable_robots(scenario) == SelectRobots(scenario.robots, FALSE)

\* No notice_thread is active.
NoticeIdle ==
  /\ notice_pc = "idle"
  /\ child_pc = "unstarted"
  /\ stop = FALSE
  /\ outcome = "none"
  /\ notice_log = << >>
  /\ sleeps_after_stop = 0

\* ------------------------------------------------------------------ Init
\* The configuration is read once (lines 58-60).  Times are whole seconds;
\* min_episode_length_s is either one physics step or the whole episode length.
\* log_dir and attempts start without episode directories.
Init ==
  /\ config \in [ max_failures : 0..MaxFailuresCfg,
                  episode_length_s : {EpisodeLengthCfg},
                  min_episode_length_s : {PhysicsDtCfg, EpisodeLengthCfg},
                  physics_dt : {PhysicsDtCfg},
                  episodes_per_scenario : 1..MaxEpisodesPerScenario ]
  /\ pc = "open_fifos"
  /\ chan = [p \in Peers |-> [state |-> "none", closes |-> 0]]
  /\ node_protocol = [known |-> FALSE, reflects |-> FALSE, obs_ok |-> FALSE, cmd_ok |-> FALSE]
  /\ episodes = << >>
  /\ queue0 = << >>
  /\ scenarios_seen = 0
  /\ nfailures = 0
  /\ attempt_i = 0
  /\ per_episode = {}
  /\ stats = << >>
  /\ scores = {}
  /\ final_dirs = {}
  /\ attempt_dirs = {}
  /\ fw_open = {}
  /\ current_sim_time = 0
  /\ ri = 0
  /\ sent = << >>
  /\ iterBase = 0
  /\ timing_log = << >>
  /\ length_s = 0
  /\ history = << >>
  /\ error = "none"
  /\ cause = NoCause
  /\ NoticeIdle

\* ------------------------------------------------- exception propagation
\* An exception raised in main before its try statement (lines 57-81): it
\* reaches the caller as raised; no handler and no finally clause runs.
RaiseBeforeTry(kind, site) ==
  /\ pc' = "raised"
  /\ error' = kind
  /\ cause' = [site |-> site, kind |-> kind]
  /\ UNCHANGED chan

\* main's except clauses without the "except dc.InvalidSubmission: raise" arm
Classify_AllEvaluator(exc) == "InvalidEvaluator"

\* Class that main's except clauses (lines 183-189) hand to the caller.
Classify(exc) == IF exc = "InvalidSubmission" THEN "InvalidSubmission" ELSE "InvalidEvaluator"

\* An exception of class exc raised inside main's try statement (lines 86-182):
\* except clauses at 183-189, then finally at 191-194.
RaiseInTry(exc, kind, site) ==
  /\ pc' = "raised"
  /\ error' = Classify(exc)
  /\ cause' = [site |-> site, kind |-> kind]
  /\ chan' = Close(Close(chan, "agent"), "sim")

\* A peer exchange on channel `to` that answers normally.
Sent(to, topic, robot, reply) == sent' = Append(sent, Msg(to, topic, robot, reply))

\* --------------------------------------------------- main, lines 62-81
\* first open all fifos (lines 63-72)
OpenFifos ==
  /\ pc = "open_fifos"
  /\ chan' = [p \in Peers |-> [state |-> "open", closes |-> 0]]
  /\ pc' = "proto_sm"
  /\ UNCHANGED << noticeVars, config, node_protocol, queueVars, fsVars, episodeVars, error, cause >>

\* sm_ci._get_node_protocol (line 77)
GetNodeProtocolSm ==
  /\ pc = "proto_sm"
  /\ \/ /\ pc' = "proto_sim"
        /\ UNCHANGED << chan, error, cause >>
     \/ \E k \in ExcKinds : RaiseBeforeTry(k, "sm._get_node_protocol")
  /\ UNCHANGED << noticeVars, config, node_protocol, queueVars, fsVars, episodeVars >>

\* sim_ci._get_node_protocol (line 78)
GetNodeProtocolSim ==
  /\ pc = "proto_sim"
  /\ \/ /\ pc' = "proto_agent"
        /\ UNCHANGED << chan, error, cause >>
     \/ \E k \in ExcKinds : RaiseBeforeTry(k, "sim._get_node_protocol")
  /\ UNCHANGED << noticeVars, config, node_protocol, queueVars, fsVars, episodeVars >>

\* The agent's answers to introspection: no reflection (node_protocol is None),
\* or declared types that are or are not assignable from/to the simulator's.
AgentProtocols ==
  { [known |-> TRUE, reflects |-> FALSE, obs_ok |-> FALSE, cmd_ok |-> FALSE] }
  \cup [known : {TRUE}, reflects : {TRUE}, obs_ok : BOOLEAN, cmd_ok : BOOLEAN]

\* agent_ci._get_node_protocol (line 79)
GetNodeProtocolAgent ==
  /\ pc = "proto_agent"
  /\ \/ /\ node_protocol' \in AgentProtocols
        /\ pc' = "check_compatibility"
        /\ UNCHANGED << chan, error, cause >>
     \/ /\ \E k \in ExcKinds : RaiseBeforeTry(k, "agent._get_node_protocol")
        /\ UNCHANGED node_protocol
  /\ UNCHANGED << noticeVars, config, queueVars, fsVars, episodeVars >>

\* Truth values bool(r) can take for the object r returned by can_be_used_as2
\* when r.result = res: the source does not define r's class; an object is
\* true unless its class defines __bool__ (or __len__).
TruthOf(res) == {res, TRUE}

\* check_compatibility_between_agent_and_sim (lines 345-375): the message of
\* the exception raised, or "ok".  cmd_truth is bool(r) of the second check.
check_compatibility_between_agent_and_sim(np, cmd_truth) ==
  IF ~np.reflects THEN "ok"
  ELSE IF ~np.obs_ok THEN "Observations mismatch"
  ELSE IF ~cmd_truth THEN "Commands mismatch"
  ELSE "ok"

\* line 81
CheckCompatibility ==
  /\ pc = "check_compatibility"
  /\ \E cmd_truth \in TruthOf(node_protocol.cmd_ok) :
       LET r == check_compatibility_between_agent_and_sim(node_protocol, cmd_truth) IN
         IF r = "ok"
         THEN /\ pc' = "seed_sim"
              /\ UNCHANGED << chan, error, cause >>
         ELSE RaiseBeforeTry("Exception", r)
  /\ UNCHANGED << noticeVars, config, node_protocol, queueVars, fsVars, episodeVars >>

\* --------------------------------------------------- main, lines 88-94
\* sim_ci.write_topic_and_expect_zero('seed', config.seed) (line 90)
SeedSim ==
  /\ pc = "seed_sim"
  /\ \/ /\ Sent("sim", "seed", "", "ok")
        /\ pc' = "seed_agent"
        /\ UNCHANGED << chan, error, cause >>
     \/ /\ \E k \in ExcKinds : RaiseInTry(k, k, "seed")
        /\ Sent("sim", "seed", "", "raise")
  /\ UNCHANGED << noticeVars, config, node_protocol, queueVars, fsVars,
                  current_sim_time, ri, iterBase, timing_log, length_s >>

\* agent_ci.write_topic_and_expect_zero('seed', config.seed) (line 91)
SeedAgent ==
  /\ pc = "seed_agent"
  /\ \/ /\ Sent("agent", "seed", "", "ok")
        /\ pc' = "sm_seed"
        /\ UNCHANGED << chan, error, cause >>
     \/ /\ \E k \in ExcKinds : RaiseInTry(k, k, "seed")
        /\ Sent("agent", "seed", "", "raise")
  /\ UNCHANGED << noticeVars, config, node_protocol, queueVars, fsVars,
                  current_sim_time, ri, iterBase, timing_log, length_s >>

\* ------------------------------------------- get_episodes, lines 384-404
\* sm_ci.write_topic_and_expect_zero('seed', seed) (line 385)
GetEpisodesSeed ==
  /\ pc = "sm_seed"
  /\ \/ /\ Sent("sm", "seed", "", "ok")
        /\ pc' = "next_scenario"
        /\ UNCHANGED << chan, error, cause >>
     \/ /\ \E k \in ExcKinds : RaiseInTry(k, k, "seed")
        /\ Sent("sm", "seed", "", "raise")
  /\ UNCHANGED << noticeVars, config, node_protocol, queueVars, fsVars,
                  current_sim_time, ri, iterBase, timing_log, length_s >>

\* lines 398-403 with the episodes numbered from 1
EpisodeSpecs_OneBased(scenario, episodes_per_scenario) ==
  [ j \in 1..episodes_per_scenario |->
      [episode_name |-> EpisodeName(scenario.scenario_name, j), scenario |-> scenario] ]

\* The EpisodeSpecs of one scenario (lines 398-403).
EpisodeSpecs(scenario, episodes_per_scenario) ==
  [ j \in 1..episodes_per_scenario |->
      [episode_name |-> EpisodeName(scenario.scenario_name, j - 1), scenario |-> scenario] ]

\* One round of iterate_scenarios (lines 388-394) with the loop body of
\* get_episodes (lines 397-403); on 'finished', sm_ci.close() and return.
NextScenario ==
  /\ pc = "next_scenario"
  /\ \/ /\ Len(episodes) + config.episodes_per_scenario <= MaxPending
        /\ \E scenario \in Catalogue :
             /\ Sent("sm", "next_scenario", "", scenario.scenario_name)
             /\ episodes' = episodes \o EpisodeSpecs(scenario, config.episodes_per_scenario)
        /\ scenarios_seen' = scenarios_seen + 1
        /\ UNCHANGED << pc, chan, queue0, error, cause >>
     \/ /\ Sent("sm", "next_scenario", "", "finished")
        /\ chan' = Close(chan, "sm")
        /\ queue0' = episodes
        /\ pc' = "while_episodes"
        /\ UNCHANGED << episodes, scenarios_seen, error, cause >>
     \/ /\ \E k \in ExcKinds : RaiseInTry(k, k, "next_scenario")
        /\ Sent("sm", "next_scenario", "", "raise")
        /\ UNCHANGED << episodes, queue0, scenarios_seen >>
  /\ UNCHANGED << noticeVars, config, node_protocol, nfailures, attempt_i, per_episode, stats, scores,
                  history, fsVars, current_sim_time, ri, iterBase, timing_log, length_s >>

\* --------------------------------------------------- main, lines 96-131
episode_spec == Head(episodes)
episode_name == episode_spec.episode_name
scenario == episode_spec.scenario

\* dn matching every attempt directory of the episode, whatever its index
IsDn_AnyAttempt(d) == d.name = episode_name

\* dn: the directory of the current attempt (line 112)
IsDn(d) == d.name = episode_name /\ d.attempt = attempt_i

\* A reported score: its name (key, suffix) and the per_episode entries whose
\* values it was computed from.
Score(k, suffix, over) == [name |-> << k, suffix >>, over |-> over]

HasKey(e, k) == \E j \in 1..Len(e.stats) : e.stats[j] = k

\* values = [_[k] for _ in per_episode.values()] (line 199) raises KeyError
\* when an entry of per_episode has no key k
KeyErrorAt(pe, k) == \E e \in pe : ~HasKey(e, k)

\* Index in list(stats) at which the loop of lines 198-203 stops with a
\* KeyError; Len(st) + 1 if it runs to its end.
FirstKeyError(pe, st) ==
  IF \E i \in 1..Len(st) : KeyErrorAt(pe, st[i])
  THEN CHOOSE i \in 1..Len(st) :
         /\ KeyErrorAt(pe, st[i])
         /\ \A j \in 1..(i - 1) : ~KeyErrorAt(pe, st[j])
  ELSE Len(st) + 1

\* The keys for which lines 200-203 are reached: for k in list(stats).
AggregatedKeys(pe, st) == { st[i] : i \in 1..(FirstKeyError(pe, st) - 1) }

\* lines 196-203: the scores set before main returns or the KeyError leaves it
ReportedScores(pe, st) ==
  { Score("per-episodes", "", pe) }
  \cup { Score(k, suffix, { e \in pe : HasKey(e, k) }) :
           k \in AggregatedKeys(pe, st), suffix \in {"_mean", "_median", "_min", "_max"} }

\* while episodes: ... (line 96) is left, then finally (191-194) and the
\* score report (196-203).
MainReturns ==
  /\ pc = "while_episodes"
  /\ episodes = << >>
  /\ chan' = Close(Close(chan, "agent"), "sim")
  /\ scores' = ReportedScores(per_episode, stats)
  /\ IF FirstKeyError(per_episode, stats) <= Len(stats)
     THEN /\ pc' = "raised"
          /\ error' = "KeyError"
          /\ cause' = [site |-> "values", kind |-> "KeyError"]
     ELSE /\ pc' = "returned"
          /\ UNCHANGED << error, cause >>
  /\ UNCHANGED << noticeVars, config, node_protocol, episodes, queue0, scenarios_seen, nfailures,
                  attempt_i, per_episode, stats, history, fsVars, episodeVars >>

\* the guard of lines 98-100 written with > instead of >=
too_many_failures_Late(n, max_failures) == n > max_failures

\* the guard of lines 98-100
too_many_failures(n, max_failures) == n >= max_failures

\* lines 98-100
TooManyFailures ==
  /\ pc = "while_episodes"
  /\ episodes # << >>
  /\ too_many_failures(nfailures, config.max_failures)
  /\ RaiseInTry("Exception", "Exception", "Too many failures")
  /\ UNCHANGED << noticeVars, config, node_protocol, queueVars, fsVars, episodeVars >>

\* line 128 counting every robot of the scenario
num_playable_AllRobots(sc) == Len(sc.robots)

\* line 128
num_playable(sc) == Len(playable_robots(sc))

\* lines 102-131: directories, log handle, robot/agent count check
StartAttempt ==
  /\ pc = "while_episodes"
  /\ episodes # << >>
  /\ ~too_many_failures(nfailures, config.max_failures)
  /\ final_dirs' = { d \in final_dirs : d.name # episode_name }
  /\ attempt_dirs' = { d \in attempt_dirs : ~IsDn(d) }
        \cup { [name |-> episode_name, attempt |-> attempt_i, files |-> {"log.gs2.cbor.tmp"}] }
  /\ fw_open' = fw_open \cup {attempt_i}
  /\ sent' = << >>
  /\ iterBase' = 0
  /\ timing_log' = << >>
  /\ IF num_playable(scenario) # Len(agents)
     THEN RaiseInTry("Exception", "Exception", "count mismatch")
     ELSE /\ pc' = "clear"
          /\ UNCHANGED << chan, error, cause >>
  /\ UNCHANGED << noticeVars, config, node_protocol, queueVars, current_sim_time, ri, length_s >>

\* ------------------------------------------- run_episode, lines 234-334
\* fw.close(); os.rename(fn_tmp, fn) (lines 145-147)
CloseAndRenameLog ==
  /\ fw_open' = fw_open \ {attempt_i}
  /\ attempt_dirs' =
       { IF IsDn(d)
         THEN [d EXCEPT !.files = (@ \ {"log.gs2.cbor.tmp"}) \cup {"log.gs2.cbor"}]
         ELSE d : d \in attempt_dirs }
  /\ UNCHANGED final_dirs

\* An exception of class exc leaving run_episode: except/finally of lines
\* 141-147, then main's handlers.
RaiseInEpisode(exc, kind, site) ==
  /\ RaiseInTry(exc, kind, site)
  /\ CloseAndRenameLog

\* sim_ci.write_topic_and_expect[_zero](topic, ...) inside run_episode
SimCall(topic, robot, nextpc, nextri) ==
  \/ /\ Sent("sim", topic, robot, "ok")
     /\ pc' = nextpc
     /\ ri' = nextri
     /\ UNCHANGED << chan, error, cause, fsVars >>
  \/ /\ \E k \in ExcKinds : RaiseInEpisode(k, k, topic)
     /\ Sent("sim", topic, robot, "raise")
     /\ UNCHANGED ri

\* playable_robots2agent (line 266): zip(playable_robots, agents) pairs the
\* i-th playable robot with the i-th agent
playable_robots2agent(i) == agents[i]

\* agent.write_topic_and_expect[_zero](topic, ...) inside the try of lines
\* 299-305: any exception becomes InvalidSubmission
AgentCall(agent, topic, robot, nextpc) ==
  \/ /\ Sent(agent, topic, robot, "ok")
     /\ pc' = nextpc
     /\ UNCHANGED << chan, error, cause, fsVars >>
  \/ /\ \E k \in ExcKinds : RaiseInEpisode("InvalidSubmission", k, topic)
     /\ Sent(agent, topic, robot, "raise")

restOfEpisode == << noticeVars, config, node_protocol, queueVars, current_sim_time, iterBase,
                   timing_log, length_s >>

\* line 242
Clear ==
  /\ pc = "clear"
  /\ SimCall("clear", "", "set_map", 0)
  /\ UNCHANGED restOfEpisode

\* line 244
SetMap ==
  /\ pc = "set_map"
  /\ IF Len(scenario.robots) > 0
     THEN SimCall("set_map", "", "spawn_robot", 1)
     ELSE SimCall("set_map", "", "sim_episode_start", 0)
  /\ UNCHANGED restOfEpisode

\* lines 247-250
SpawnRobot ==
  /\ pc = "spawn_robot"
  /\ IF ri < Len(scenario.robots)
     THEN SimCall("spawn_robot", scenario.robots[ri].robot_name, "spawn_robot", ri + 1)
     ELSE SimCall("spawn_robot", scenario.robots[ri].robot_name, "sim_episode_start", 0)
  /\ UNCHANGED restOfEpisode

\* line 253 followed at once by the step loop, lines 255-256 left out
SimEpisodeStart_SkipAgents ==
  /\ pc = "sim_episode_start"
  /\ SimCall("episode_start", "", "loop_top", 0)
  /\ UNCHANGED restOfEpisode

\* line 253
SimEpisodeStart ==
  /\ pc = "sim_episode_start"
  /\ SimCall("episode_start", "", "agent_episode_start", 1)
  /\ UNCHANGED restOfEpisode

\* lines 255-266: episode_start to every agent (outside the try of 299-305),
\* then the locals of the step loop
AgentEpisodeStart ==
  /\ pc = "agent_episode_start"
  /\ \/ /\ Sent(agents[ri], "episode_start", "", "ok")
        /\ IF ri < Len(agents)
           THEN /\ ri' = ri + 1
                /\ UNCHANGED pc
           ELSE /\ ri' = 0
                /\ pc' = "loop_top"
        /\ current_sim_time' = 0
        /\ UNCHANGED << chan, error, cause, fsVars >>
     \/ /\ \E k \in ExcKinds : RaiseInEpisode(k, k, "episode_start")
        /\ Sent(agents[ri], "episode_start", "", "raise")
        /\ UNCHANGED << ri, current_sim_time >>
  /\ UNCHANGED << noticeVars, config, node_protocol, queueVars, iterBase, timing_log, length_s >>

\* steps = 0 (line 262); run_episode never assigns it again
steps == 0

\* return current_sim_time (line 334), then lines 139 and 145-147
EpisodeReturns ==
  /\ length_s' = current_sim_time
  /\ pc' = "read_and_draw"
  /\ CloseAndRenameLog
  /\ UNCHANGED << chan, error, cause >>

\* the test of line 269 written with > instead of >=
time_is_up_Late(t, episode_length_s) == t > episode_length_s

\* the test of line 269
time_is_up(t, episode_length_s) == t >= episode_length_s

\* where the step loop goes after the playable robots (line 311), and where
\* an iteration begins (line 275)
AfterPlayable == IF Len(not_playable_robots(scenario)) > 0 THEN "np_get_robot_state" ELSE "get_sim_state"
\* the step loop starting with the non-playable robots
FirstOfIteration_NonPlayableFirst == AfterPlayable
FirstOfIteration == IF Len(playable_robots(scenario)) > 0 THEN "get_robot_state" ELSE AfterPlayable

\* lines 268-274
LoopTop ==
  /\ pc = "loop_top"
  /\ IF time_is_up(current_sim_time, config.episode_length_s)
     THEN /\ EpisodeReturns
          /\ UNCHANGED << ri, iterBase >>
     ELSE /\ pc' = FirstOfIteration
          /\ ri' = 1
          /\ iterBase' = Len(sent)
          /\ UNCHANGED << chan, error, cause, fsVars, length_s >>
  /\ UNCHANGED << noticeVars, config, node_protocol, queueVars, current_sim_time, sent, timing_log >>

\* lines 279-283
GetRobotState ==
  /\ pc = "get_robot_state"
  /\ SimCall("get_robot_state", playable_robots(scenario)[ri], "get_robot_performance", ri)
  /\ UNCHANGED restOfEpisode

\* lines 285-290
GetRobotPerformance ==
  /\ pc = "get_robot_performance"
  /\ SimCall("get_robot_performance", playable_robots(scenario)[ri], "get_robot_observations", ri)
  /\ UNCHANGED restOfEpisode

\* lines 292-296
GetRobotObservations ==
  /\ pc = "get_robot_observations"
  /\ SimCall("get_robot_observations", playable_robots(scenario)[ri], "observations", ri)
  /\ UNCHANGED restOfEpisode

\* line 300
Observations ==
  /\ pc = "observations"
  /\ AgentCall(playable_robots2agent(ri), "observations", playable_robots(scenario)[ri], "get_commands")
  /\ UNCHANGED << ri, restOfEpisode >>

\* line 301
GetCommands ==
  /\ pc = "get_commands"
  /\ AgentCall(playable_robots2agent(ri), "get_commands", playable_robots(scenario)[ri], "set_robot_commands")
  /\ UNCHANGED << ri, restOfEpisode >>

\* lines 307-309, and the end of the loop of line 275
SetRobotCommands ==
  /\ pc = "set_robot_commands"
  /\ IF ri < Len(playable_robots(scenario))
     THEN SimCall("set_robot_commands", playable_robots(scenario)[ri], "get_robot_state", ri + 1)
     ELSE SimCall("set_robot_commands", playable_robots(scenario)[ri], AfterPlayable, 1)
  /\ UNCHANGED restOfEpisode

\* lines 311-316
NpGetRobotState ==
  /\ pc = "np_get_robot_state"
  /\ IF ri < Len(not_playable_robots(scenario))
     THEN SimCall("get_robot_state", not_playable_robots(scenario)[ri], "np_get_robot_state", ri + 1)
     ELSE SimCall("get_robot_state", not_playable_robots(scenario)[ri], "get_sim_state", 0)
  /\ UNCHANGED restOfEpisode

\* lines 318-326: the simulator answers done or not done
GetSimState ==
  /\ pc = "get_sim_state"
  /\ \/ /\ Sent("sim", "get_sim_state", "", "done")
        /\ EpisodeReturns
        /\ UNCHANGED current_sim_time
     \/ /\ Sent("sim", "get_sim_state", "", "not done")
        /\ pc' = "step"
        /\ UNCHANGED << chan, error, cause, fsVars, length_s, current_sim_time >>
     \/ /\ \E k \in ExcKinds : RaiseInEpisode(k, k, "get_sim_state")
        /\ Sent("sim", "get_sim_state", "", "raise")
        /\ UNCHANGED << length_s, current_sim_time >>
  /\ UNCHANGED << noticeVars, config, node_protocol, queueVars, ri, iterBase, timing_log >>

\* lines 328-330
Step ==
  /\ pc = "step"
  /\ current_sim_time' = current_sim_time + config.physics_dt
  /\ SimCall("step", "", "log_timing_info", ri)
  /\ UNCHANGED << noticeVars, config, node_protocol, queueVars, iterBase, timing_log, length_s >>

\* line 332 with log_timing_info (lines 337-342): the record of TimeTracker(steps)
LogTimingInfo ==
  /\ pc = "log_timing_info"
  /\ timing_log' = Append(timing_log, steps)
  /\ pc' = "loop_top"
  /\ UNCHANGED << noticeVars, config, chan, node_protocol, queueVars, fsVars, current_sim_time, ri,
                  sent, iterBase, length_s, error, cause >>

\* --------------------------------------------------- main, lines 149-182
\* per_episode[episode_name] = stats (line 168)
SetPerEpisode(pe, name, attempt, st) ==
  { e \in pe : e.name # name } \cup { [name |-> name, attempt |-> attempt, stats |-> st] }

\* lines 153-168: read_and_draw under notice_thread, then the statistics
ReadAndDraw ==
  /\ pc = "read_and_draw"
  /\ \/ /\ \E st \in MetricPathLists :
             /\ stats' = st
             /\ per_episode' = SetPerEpisode(per_episode, episode_name, attempt_i, st)
        /\ pc' = "judge"
        /\ UNCHANGED << chan, error, cause >>
     \/ /\ \E k \in ExcKinds : RaiseInTry(k, k, "read_and_draw")
        /\ UNCHANGED << per_episode, stats >>
  /\ UNCHANGED << noticeVars, config, node_protocol, episodes, queue0, scenarios_seen, nfailures,
                  attempt_i, scores, history, fsVars, episodeVars >>

\* the test of line 170 accepting every attempt
long_enough_Always(len, min_episode_length_s) == TRUE

\* the test of line 170
long_enough(len, min_episode_length_s) == len >= min_episode_length_s

Attempt(accepted) == [name |-> episode_name, attempt |-> attempt_i, accepted |-> accepted]

\* the locals of run_episode are gone once its result has been judged
ForgetEpisode ==
  /\ current_sim_time' = 0
  /\ ri' = 0
  /\ sent' = << >>
  /\ iterBase' = 0
  /\ timing_log' = << >>
  /\ length_s' = 0

\* line 178 left out: the attempt directory is not renamed into place
Promote_Skip(fd, name, attempt) == fd

\* os.rename(dn, dn_final) (line 178), on the final directories
Promote(fd, name, attempt) == fd \cup { [name |-> name, attempt |-> attempt] }

\* lines 170-178 and 182: pop, make_video1 under notice_thread, promote dn
Accept ==
  /\ pc = "judge"
  /\ long_enough(length_s, config.min_episode_length_s)
  /\ episodes' = Tail(episodes)
  /\ history' = Append(history, Attempt(TRUE))
  /\ \/ /\ final_dirs' = Promote(final_dirs, episode_name, attempt_i)
        /\ attempt_dirs' = { d \in attempt_dirs : ~IsDn(d) }
        /\ attempt_i' = attempt_i + 1
        /\ pc' = "while_episodes"
        /\ ForgetEpisode
        /\ UNCHANGED << chan, error, cause >>
     \/ /\ \E k \in ExcKinds : RaiseInTry(k, k, "make_video1")
        /\ UNCHANGED << final_dirs, attempt_dirs, attempt_i, episodeVars >>
  /\ UNCHANGED << noticeVars, config, node_protocol, queue0, scenarios_seen, nfailures, per_episode,
                  stats, scores, fw_open >>

\* lines 179-182 without nfailures += 1
Reject_NoCount ==
  /\ pc = "judge"
  /\ ~long_enough(length_s, config.min_episode_length_s)
  /\ attempt_i' = attempt_i + 1
  /\ history' = Append(history, Attempt(FALSE))
  /\ pc' = "while_episodes"
  /\ ForgetEpisode
  /\ UNCHANGED << noticeVars, config, chan, node_protocol, episodes, queue0, scenarios_seen,
                  nfailures, per_episode, stats, scores, fsVars, error, cause >>

\* lines 179-182
Reject ==
  /\ pc = "judge"
  /\ ~long_enough(length_s, config.min_episode_length_s)
  /\ nfailures' = nfailures + 1
  /\ attempt_i' = attempt_i + 1
  /\ history' = Append(history, Attempt(FALSE))
  /\ pc' = "while_episodes"
  /\ ForgetEpisode
  /\ UNCHANGED << noticeVars, config, chan, node_protocol, episodes, queue0, scenarios_seen,
                  per_episode, stats, scores, fsVars, error, cause >>

\* --------------------------------------------- __main__, lines 443-454
\* except RemoteNodeAborted (line 447): whether an exception of class exc
\* leaving wrap(cie) is handled by pausing 10 seconds before it is re-raised
pauses_before_abort(exc) == exc = "RemoteNodeAborted"

\* ------------------------------------------------------- specification
Next ==
  \/ OpenFifos
  \/ GetNodeProtocolSm
  \/ GetNodeProtocolSim
  \/ GetNodeProtocolAgent
  \/ CheckCompatibility
  \/ SeedSim
  \/ SeedAgent
  \/ GetEpisodesSeed
  \/ NextScenario
  \/ MainReturns
  \/ TooManyFailures
  \/ StartAttempt
  \/ Clear
  \/ SetMap
  \/ SpawnRobot
  \/ SimEpisodeStart
  \/ AgentEpisodeStart
  \/ LoopTop
  \/ GetRobotState
  \/ GetRobotPerformance
  \/ GetRobotObservations
  \/ Observations
  \/ GetCommands
  \/ SetRobotCommands
  \/ NpGetRobotState
  \/ GetSimState
  \/ Step
  \/ LogTimingInfo
  \/ ReadAndDraw
  \/ Accept
  \/ Reject

Spec == Init /\ [][Next]_vars

\* main is one sequential thread: while a statement can be executed, one is.
\* Every peer exchange and collaborator call ends, by returning or raising.
FairSpec == Spec /\ WF_vars(Next)

\* ------------------------------- notice_thread, lines 206-231, on its own
\* One use of notice_thread (lines 153-154 or 175-176): the calling thread and
\* thread t interleave statement by statement.  main's variables keep the
\* values of one configuration.
NoticeInit ==
  /\ Init
  /\ config.max_failures = 0
  /\ config.min_episode_length_s = PhysicsDtCfg
  /\ config.episodes_per_scenario = 1

\* lines 208-212: stop = False, the thread is created and started, the
\* protected call begins
NoticeEnter ==
  /\ notice_pc = "idle"
  /\ stop' = FALSE
  /\ child_pc' = "test"
  /\ notice_pc' = "yield"
  /\ UNCHANGED << mainVars, outcome, notice_log, sleeps_after_stop >>

\* line 214: the protected call returns or raises; either way the finally
\* clause is entered
Yield ==
  /\ notice_pc = "yield"
  /\ outcome' \in {"returned", "raised"}
  /\ notice_pc' = "took"
  /\ UNCHANGED << mainVars, child_pc, stop, notice_log, sleeps_after_stop >>

\* lines 217-219
LogTook ==
  /\ notice_pc = "took"
  /\ notice_log' = Append(notice_log, "took")
  /\ notice_pc' = "set_stop"
  /\ UNCHANGED << mainVars, child_pc, stop, outcome, sleeps_after_stop >>

\* line 220
SetStop ==
  /\ notice_pc = "set_stop"
  /\ stop' = TRUE
  /\ notice_pc' = "waiting"
  /\ UNCHANGED << mainVars, child_pc, outcome, notice_log, sleeps_after_stop >>

\* line 221
LogWaiting ==
  /\ notice_pc = "waiting"
  /\ notice_log' = Append(notice_log, "waiting")
  /\ notice_pc' = "join"
  /\ UNCHANGED << mainVars, child_pc, stop, outcome, sleeps_after_stop >>

\* line 222 returning without waiting for the thread
Join_NoWait ==
  /\ notice_pc = "join"
  /\ notice_pc' = "exited"
  /\ UNCHANGED << mainVars, child_pc, stop, outcome, notice_log, sleeps_after_stop >>

\* t.join() (line 222) returns once the thread has finished; the with
\* statement is left, by return or by the exception of the protected call
Join ==
  /\ notice_pc = "join"
  /\ child_pc = "finished"
  /\ notice_pc' = "exited"
  /\ UNCHANGED << mainVars, child_pc, stop, outcome, notice_log, sleeps_after_stop >>

IsRunningLine(l) == l = "running"

\* while not stop_condition() (line 227)
ChildTest ==
  /\ child_pc = "test"
  /\ child_pc' = IF stop THEN "finished" ELSE "log"
  /\ UNCHANGED << mainVars, notice_pc, stop, outcome, notice_log, sleeps_after_stop >>

\* lines 228-229
ChildLog ==
  /\ child_pc = "log"
  /\ ~stop =>
       Cardinality({ i \in 1..Len(notice_log) : IsRunningLine(notice_log[i]) }) < MaxNoticeLines
  /\ notice_log' = Append(notice_log, "running")
  /\ child_pc' = "sleep"
  /\ UNCHANGED << mainVars, notice_pc, stop, outcome, sleeps_after_stop >>

\* time.sleep(interval) (line 230) is over
ChildSleep ==
  /\ child_pc = "sleep"
  /\ child_pc' = "test"
  /\ sleeps_after_stop' = IF stop THEN sleeps_after_stop + 1 ELSE sleeps_after_stop
  /\ UNCHANGED << mainVars, notice_pc, stop, outcome, notice_log >>

NoticeFinally == LogTook \/ SetStop \/ LogWaiting \/ Join
NoticeChild == ChildTest \/ ChildLog \/ ChildSleep

NoticeNext ==
  \/ NoticeEnter
  \/ Yield
  \/ LogTook
  \/ SetStop
  \/ LogWaiting
  \/ Join
  \/ ChildTest
  \/ ChildLog
  \/ ChildSleep

\* The statements of the finally clause are executed one after the other, and
\* a started thread keeps being scheduled (its sleep ends).
NoticeSpec ==
  /\ NoticeInit
  /\ [][NoticeNext]_vars
  /\ WF_vars(NoticeFinally)
  /\ WF_vars(NoticeChild)

\* ================================================================ claims
\* states in which Head(episodes) is the spec of the attempt that wrote `sent`
RunEpisodePcs ==
  { "clear", "set_map", "spawn_robot", "sim_episode_start", "agent_episode_start",
    "loop_top", "get_robot_state", "get_robot_performance", "get_robot_observations",
    "observations", "get_commands", "set_robot_commands", "np_get_robot_state",
    "get_sim_state", "step", "log_timing_info" }
RunEpisodeSites ==
  { "clear", "set_map", "spawn_robot", "episode_start", "get_robot_state",
    "get_robot_performance", "get_robot_observations", "observations", "get_commands",
    "set_robot_commands", "get_sim_state", "step" }
InAttempt ==
  \/ pc \in RunEpisodePcs \cup {"read_and_draw", "judge"}
  \/ pc = "raised" /\ cause.site \in RunEpisodeSites \cup {"read_and_draw"}

Key(m) == << m.to, m.topic, m.robot >>
Keys(seq) == [ i \in 1..Len(seq) |-> Key(seq[i]) ]
IsPrefix(a, b) == Len(a) <= Len(b) /\ \A i \in 1..Len(a) : a[i] = b[i]
Count(seq, Test(_)) == Cardinality({ i \in 1..Len(seq) : Test(seq[i]) })
Last(seq) == seq[Len(seq)]

\* messages of the current (or last) iteration of the step loop
Iteration == SubSeq(sent, iterBase + 1, Len(sent))

\* The order the claim prescribes for one iteration, for the robots of sc in
\* scenario order, the i-th playable robot being served by the i-th agent.
RECURSIVE PlayableBlocks(_, _)
PlayableBlocks(robots, i) ==
  IF robots = << >> THEN << >>
  ELSE IF Head(robots).playable
       THEN LET r == Head(robots).robot_name IN
            << << "sim", "get_robot_state", r >>,
               << "sim", "get_robot_performance", r >>,
               << "sim", "get_robot_observations", r >>,
               << agents[i], "observations", r >>,
               << agents[i], "get_commands", r >>,
               << "sim", "set_robot_commands", r >> >>
            \o PlayableBlocks(Tail(robots), i + 1)
       ELSE PlayableBlocks(Tail(robots), i)
RECURSIVE NonPlayableBlocks(_)
NonPlayableBlocks(robots) ==
  IF robots = << >> THEN << >>
  ELSE IF ~Head(robots).playable
       THEN << << "sim", "get_robot_state", Head(robots).robot_name >> >>
            \o NonPlayableBlocks(Tail(robots))
       ELSE NonPlayableBlocks(Tail(robots))
ExpectedIteration(sc) ==
  PlayableBlocks(sc.robots, 1) \o NonPlayableBlocks(sc.robots)
  \o << << "sim", "get_sim_state", "" >>, << "sim", "step", "" >> >>

\* C1: in every iteration of the step loop the messages sent so far are a
\* prefix of: for each playable robot in order get_robot_state,
\* get_robot_performance, get_robot_observations (simulator), observations,
\* get_commands (that robot's agent), set_robot_commands (simulator); then
\* get_robot_state for each non-playable robot; then get_sim_state (then step).
C1_StepOrder ==
  (InAttempt /\ iterBase > 0) => IsPrefix(Keys(Iteration), ExpectedIteration(scenario))

\* C1 witness: a full iteration on the scenario with a non-playable robot
\* listed before and after the playable one has been driven up to its step.
C1_Witness ==
  /\ pc = "log_timing_info"
  /\ scenario.scenario_name = "loop"
  /\ Keys(Iteration) = ExpectedIteration(scenario)

IsStep(m) == m.topic = "step"
IsDone(m) == m.topic = "get_sim_state" /\ m.reply = "done"
BodyPcs ==
  { "get_robot_state", "get_robot_performance", "get_robot_observations", "observations",
    "get_commands", "set_robot_commands", "np_get_robot_state", "get_sim_state", "step" }

Rejected(h) == ~h.accepted

\* C3: the run fails with 'Too many failures' only with nfailures =
\* max_failures; if every attempt so far was rejected, exactly max_failures
\* attempts were executed; while an attempt runs nfailures < max_failures.
C3_RetryBound ==
  /\ (pc = "raised" /\ cause.site = "Too many failures") =>
       /\ nfailures = config.max_failures
       /\ Count(history, Rejected) = Len(history) =>
            (Len(history) = config.max_failures /\ attempt_i = config.max_failures)
  /\ InAttempt => nfailures < config.max_failures
  /\ nfailures = Count(history, Rejected)
  /\ nfailures <= config.max_failures

\* C3 witness: two attempts, both rejected, then 'Too many failures' with
\* max_failures = 2.
C3_Witness ==
  /\ pc = "raised"
  /\ cause.site = "Too many failures"
  /\ config.max_failures = 2
  /\ Len(history) = 2
  /\ Count(history, Rejected) = 2

Accepted(h) == h.accepted
AfterEnumeration == pc \notin {"open_fifos", "proto_sm", "proto_sim", "proto_agent",
                                "check_compatibility", "seed_sim", "seed_agent", "sm_seed",
                                "next_scenario"}

\* C4: after enumeration the queue changes only by removing its head when an
\* attempt returned at least min_episode_length_s; a shorter attempt leaves the
\* queue unchanged and adds one to nfailures and to attempt_i; a running
\* attempt is on the spec at the head of the queue, which is the first spec of
\* the original queue not yet accepted, under an index no earlier attempt had.
C4_PendingQueue ==
  /\ [][ (AfterEnumeration /\ episodes' # episodes) =>
           /\ pc = "judge"
           /\ length_s >= config.min_episode_length_s
           /\ episodes' = Tail(episodes) ]_vars
  /\ [][ (pc = "judge" /\ length_s < config.min_episode_length_s) =>
           /\ episodes' = episodes
           /\ nfailures' = nfailures + 1
           /\ attempt_i' = attempt_i + 1
           /\ history' = Append(history, [name |-> episode_name, attempt |-> attempt_i,
                                           accepted |-> FALSE]) ]_vars
  /\ [](InAttempt =>
           /\ Len(episodes) = Len(queue0) - Count(history, Accepted)
           /\ episode_spec = queue0[Count(history, Accepted) + 1]
           /\ \A i \in 1..Len(history) : history[i].attempt < attempt_i
           /\ (history # << >> /\ ~Last(history).accepted) =>
                Last(history).name = episode_name)

\* C4 witness: 'loop-0' was rejected as attempt 0 and accepted as attempt 1,
\* and 'loop-1' has begun.
C4_Witness ==
  /\ pc = "clear"
  /\ history = << [name |-> EpisodeName("loop", 0), attempt |-> 0, accepted |-> FALSE],
                  [name |-> EpisodeName("loop", 0), attempt |-> 1, accepted |-> TRUE] >>
  /\ episode_name = EpisodeName("loop", 1)

QueueNames == { queue0[i].episode_name : i \in 1..Len(queue0) }
FinalDirExists(n) == \E d \in final_dirs : d.name = n
AcceptedName(n) == \E i \in 1..Len(history) : history[i].name = n /\ history[i].accepted
\* final directories made by promoting an attempt directory in this run
Promoted(d) == d \in final_dirs
Ended == pc \in {"returned", "raised"}

\* C5 as stated: at the end of every run the final directory of each queued
\* episode name exists iff an attempt of it was accepted, and a promoted final
\* directory is never removed afterwards.
C5_Original ==
  /\ [](Ended => \A n \in QueueNames : FinalDirExists(n) <=> AcceptedName(n))
  /\ [][ \A d \in final_dirs : Promoted(d) => d \in final_dirs' ]_vars

\* C5 amended: when main returns normally every queued episode name has a
\* final directory, promoted from an accepted attempt of that name; in every
\* state a promoted final directory is that of an attempt that was accepted,
\* and acceptance is exactly length_s >= min_episode_length_s; a promoted final
\* directory is removed only when a later attempt of the same name starts.
C5_FinalDirs ==
  /\ [](pc = "returned" =>
           \A n \in QueueNames : \E d \in final_dirs : d.name = n /\ Promoted(d))
  /\ [](\A d \in final_dirs : Promoted(d) =>
           \E i \in 1..Len(history) :
              /\ history[i].name = d.name
              /\ history[i].attempt = d.attempt
              /\ history[i].accepted)
  /\ [][ history' # history =>
           Last(history').accepted = (length_s >= config.min_episode_length_s) ]_vars
  /\ [][ \A d \in final_dirs : (Promoted(d) /\ d \notin final_dirs') =>
           /\ pc = "while_episodes"
           /\ episodes # << >>
           /\ episode_name = d.name
           /\ attempt_i > d.attempt ]_vars

\* C5 witness: main returned normally after two episodes, the first accepted
\* on its second attempt, and both final directories are in place.
C5_Witness ==
  /\ pc = "returned"
  /\ Len(queue0) = 2
  /\ final_dirs = { [name |-> EpisodeName("city", 0), attempt |-> 1],
                    [name |-> EpisodeName("city", 1), attempt |-> 2] }

\* C6 as stated: whenever an error has reached main's caller, every peer
\* channel that was opened has been closed exactly once.
C6_ChannelsClosed ==
  pc = "raised" => \A p \in Peers : chan[p].state # "none" => chan[p].closes = 1

AgentExchangeSites == {"observations", "get_commands"}
EpisodeLoopSites ==
  (RunEpisodeSites \ AgentExchangeSites)
  \cup {"Too many failures", "count mismatch", "read_and_draw", "make_video1"}

\* C7: a failure of the 'observations' or 'get_commands' exchange reaches the
\* caller as InvalidSubmission, the failing agent message being the last
\* message of the run; every other failure raised inside the episode loop
\* reaches the caller as InvalidEvaluator.
C7_Classification ==
  pc = "raised" =>
    /\ cause.site \in AgentExchangeSites =>
         /\ error = "InvalidSubmission"
         /\ Last(sent).to \in { agents[i] : i \in 1..Len(agents) }
         /\ Last(sent).topic = cause.site
         /\ Last(sent).reply = "raise"
    /\ cause.site \in EpisodeLoopSites => error = "InvalidEvaluator"

\* C7 witness: the agent aborted while asked for commands in the second
\* iteration, and the run ended with InvalidSubmission.
C7_Witness ==
  /\ pc = "raised"
  /\ cause = [site |-> "get_commands", kind |-> "RemoteNodeAborted"]
  /\ error = "InvalidSubmission"
  /\ Count(sent, IsStep) = 1

Incompatible(np) == np.reflects /\ ~(np.obs_ok /\ np.cmd_ok)

RunEpisodeCompleted(a) ==
  \/ \E i \in 1..Len(history) : history[i].attempt = a
  \/ a = attempt_i /\ pc \in {"read_and_draw", "judge"}
  \/ a = attempt_i /\ pc = "raised" /\ cause.site = "read_and_draw"

\* C9 as stated: log.gs2.cbor exists in an attempt directory only if
\* run_episode of that attempt returned normally.
C9_FinalLogOnlyOnSuccess ==
  \A d \in attempt_dirs : "log.gs2.cbor" \in d.files => RunEpisodeCompleted(d.attempt)

IsSimStateQuery(m) == m.topic = "get_sim_state"

\* C10 as stated: once an iteration is over (the loop is back at its head, or
\* run_episode has returned) the log holds one timing record per iteration that
\* queried get_sim_state, the i-th record carrying step index i - 1.
C10_TimingRecords ==
  pc \in {"loop_top", "read_and_draw"} =>
    /\ Len(timing_log) = Count(sent, IsSimStateQuery)
    /\ \A i \in 1..Len(timing_log) : timing_log[i] = i - 1

ObservedPaths == UNION { { e.stats[j] : j \in 1..Len(e.stats) } : e \in per_episode }
Suffixes == {"_mean", "_median", "_min", "_max"}
Aggregates == { s \in scores : s.name[2] \in Suffixes }
EpisodesWith(k) == { e \in per_episode : HasKey(e, k) }

\* C11 as stated: when main has returned normally, the metric paths with
\* reported _mean, _median, _min and _max are exactly the paths found in the
\* statistics of any episode, and each aggregate is computed from the values of
\* exactly the episodes whose statistics have the path.
C11_Aggregates ==
  pc = "returned" =>
    /\ \A k \in ObservedPaths : \A x \in Suffixes :
         Score(k, x, EpisodesWith(k)) \in scores
    /\ \A s \in Aggregates :
         /\ s.name[1] \in ObservedPaths
         /\ s.over = EpisodesWith(s.name[1])

\* The initialization messages of an episode on scenario sc, in order.
InitKeys(sc) ==
  << << "sim", "clear", "" >>, << "sim", "set_map", "" >> >>
  \o [ i \in 1..Len(sc.robots) |-> << "sim", "spawn_robot", sc.robots[i].robot_name >> ]
  \o << << "sim", "episode_start", "" >> >>
  \o [ i \in 1..Len(agents) |-> << agents[i], "episode_start", "" >> ]
\* the messages of the attempt that fall into its initialization
InitSent == SubSeq(sent, 1, IF Len(sent) < Len(InitKeys(scenario))
                            THEN Len(sent) ELSE Len(InitKeys(scenario)))
StepLoopPcs == BodyPcs \cup {"loop_top", "log_timing_info", "read_and_draw", "judge"}

\* C12: in every attempt the messages begin with clear, set_map, one
\* spawn_robot per robot in scenario order and episode_start to the simulator,
\* then episode_start to every agent; the step loop (get_robot_state,
\* observations, step, ...) is entered only after all of them were answered;
\* an initialization message that fails is the last message of the run.
C12_InitSequence ==
  InAttempt =>
    /\ IsPrefix(Keys(InitSent), InitKeys(scenario))
    /\ \A i \in 1..Len(InitSent) :
         InitSent[i].reply # "ok" =>
           /\ InitSent[i].reply = "raise"
           /\ i = Len(sent)
           /\ pc = "raised"
    /\ (pc \in StepLoopPcs \/ Len(sent) > Len(InitKeys(scenario))) =>
         /\ Len(InitSent) = Len(InitKeys(scenario))
         /\ \A i \in 1..Len(InitSent) : InitSent[i].reply = "ok"

\* C12 witness: the episode on the scenario with three robots has been
\* initialized and its step loop has sent the first get_robot_state.
C12_Witness ==
  /\ pc = "get_robot_performance"
  /\ scenario.scenario_name = "loop"
  /\ Len(sent) = Len(InitKeys(scenario)) + 1
  /\ Keys(InitSent) =
       << << "sim", "clear", "" >>, << "sim", "set_map", "" >>,
          << "sim", "spawn_robot", "npc0" >>, << "sim", "spawn_robot", "ego" >>,
          << "sim", "spawn_robot", "npc1" >>, << "sim", "episode_start", "" >>,
          << "agent", "episode_start", "" >> >>

\* C13 as stated: when a peer exchange raised RemoteNodeAborted, the
\* exception that leaves main is still RemoteNodeAborted, so that the handler
\* of __main__ pauses before re-raising it.
C13_RemoteAbort ==
  (pc = "raised" /\ cause.kind = "RemoteNodeAborted") =>
    /\ error = "RemoteNodeAborted"
    /\ pauses_before_abort(error)

RunningLines == Cardinality({ i \in 1..Len(notice_log) : IsRunningLine(notice_log[i]) })

\* C14: when notice_thread has been left, after the protected call returned
\* or raised, stop is set and the thread has finished; the thread logs nothing
\* after that; a thread that finds stop set never logs or sleeps again, so
\* after stop is set at most one of its sleeps ends; and once stop is set the
\* thread does finish.
C14_NoticeThread ==
  /\ [](notice_pc = "exited" =>
           /\ stop
           /\ child_pc = "finished"
           /\ outcome \in {"returned", "raised"})
  /\ [][notice_pc = "exited" => notice_log' = notice_log]_vars
  /\ [](sleeps_after_stop <= 1)
  /\ [][(stop /\ child_pc = "test") => child_pc' \in {"test", "finished"}]_vars
  /\ (stop ~> child_pc = "finished")
  /\ (notice_pc = "took" ~> notice_pc = "exited")

\* C14 witness: the protected call raised; the thread had passed its test
\* when stop was set, logged once more after the caller's 'waiting' line,
\* slept once and finished; the caller has left notice_thread.
C14_Witness ==
  /\ notice_pc = "exited"
  /\ outcome = "raised"
  /\ sleeps_after_stop = 1
  /\ Last(notice_log) = "running"
  /\ RunningLines = MaxNoticeLines + 1

\* the step that accepts the current attempt and promotes its directory
Promotes == pc = "judge" /\ pc' = "while_episodes" /\ episodes' # episodes
AttemptsIncrease ==
  /\ \A i, j \in 1..Len(history) : i < j => history[i].attempt < history[j].attempt
  /\ \A i \in 1..Len(history) :
       /\ history[i].attempt <= attempt_i
       /\ pc # "raised" => history[i].attempt < attempt_i
  /\ \A d \in attempt_dirs : d.attempt <= attempt_i
  /\ \A d, e \in attempt_dirs : (d.name = e.name /\ d.attempt = e.attempt) => d = e
  /\ \A d, e \in attempt_dirs : d.attempt = e.attempt => d = e
PromotesOne ==
  /\ final_dirs' = final_dirs \cup { [name |-> episode_name, attempt |-> attempt_i] }
  /\ \A d \in final_dirs : d.name # episode_name
  /\ [name |-> episode_name, attempt |-> attempt_i, files |-> {"log.gs2.cbor"}] \in attempt_dirs

\* C15 as stated: attempts use distinct directories with increasing index;
\* accepting an episode promotes exactly the directory of the accepted
\* attempt; and when an episode is accepted no attempt directory of its name
\* remains.
C15_Original ==
  /\ []AttemptsIncrease
  /\ [][Promotes => PromotesOne]_vars
  /\ [][Promotes => \A d \in attempt_dirs' : d.name # episode_name]_vars

\* C15 amended: attempts use distinct directories with increasing index;
\* accepting an episode promotes exactly the directory of the accepted attempt,
\* which is the only attempt directory that disappears; the directory of
\* every rejected attempt stays in the attempts directory, with its log, for
\* the rest of the run.
C15_AttemptDirs ==
  /\ []AttemptsIncrease
  /\ [][Promotes => PromotesOne]_vars
  /\ [][Promotes => attempt_dirs' = { d \in attempt_dirs : d.attempt # attempt_i }]_vars
  /\ [][\A d \in attempt_dirs : d.attempt # attempt_i => d \in attempt_dirs']_vars
  /\ [](\A i \in 1..Len(history) : ~history[i].accepted =>
           [name |-> history[i].name, attempt |-> history[i].attempt,
            files |-> {"log.gs2.cbor"}] \in attempt_dirs)

\* C15 witness: 'city-0' was rejected as attempt 0 and accepted as attempt 1;
\* attempt 1 is the final directory and the directory of attempt 0 is still
\* there.
C15_Witness ==
  /\ history = << [name |-> EpisodeName("city", 0), attempt |-> 0, accepted |-> FALSE],
                  [name |-> EpisodeName("city", 0), attempt |-> 1, accepted |-> TRUE] >>
  /\ final_dirs = { [name |-> EpisodeName("city", 0), attempt |-> 1] }
  /\ attempt_dirs = { [name |-> EpisodeName("city", 0), attempt |-> 0,
                       files |-> {"log.gs2.cbor"}] }

IsToSm(m) == m.to = "sm"
\* the exchanges with the scenario maker, in order
SmExchanges == SelectSeq(sent, IsToSm)
ScenarioNamed(n) == CHOOSE s \in Catalogue : s.scenario_name = n
\* the specs the claim prescribes for the scenarios received in exchanges
\* from..Len(x) of x
RECURSIVE ExpectedSpecs(_, _)
ExpectedSpecs(x, from) ==
  IF from > Len(x) \/ x[from].reply \in {"finished", "raise"} THEN << >>
  ELSE [ j \in 1..config.episodes_per_scenario |->
           [episode_name |-> << x[from].reply, j - 1 >>,
            scenario |-> ScenarioNamed(x[from].reply)] ]
       \o ExpectedSpecs(x, from + 1)
EnumerationDone == chan["sm"].state = "closed"
\* the state in which get_episodes has just returned
JustEnumerated == pc = "while_episodes" /\ attempt_i = 0 /\ sent # << >>

\* C16: the first exchange with the scenario maker is 'seed', all later ones
\* are 'next_scenario'; requests go on while the replies are scenarios; at
\* 'finished' the channel is closed (once) and get_episodes returns; nothing is
\* sent to the scenario maker after 'finished'; the list returned holds, for
\* the S scenarios received and in their order, episodes_per_scenario specs
\* each, named (scenario_name, 0) .. (scenario_name, episodes_per_scenario - 1)
\* and referencing the scenario.
C16_GetEpisodes ==
  /\ pc = "next_scenario" =>
       /\ SmExchanges # << >>
       /\ Key(SmExchanges[1]) = << "sm", "seed", "" >>
       /\ \A i \in 2..Len(SmExchanges) :
            /\ SmExchanges[i].topic = "next_scenario"
            /\ SmExchanges[i].reply \in { s.scenario_name : s \in Catalogue }
       /\ scenarios_seen = Len(SmExchanges) - 1
       /\ episodes = ExpectedSpecs(SmExchanges, 2)
       /\ chan["sm"].state = "open"
  /\ JustEnumerated =>
       /\ Key(SmExchanges[1]) = << "sm", "seed", "" >>
       /\ \A i \in 2..Len(SmExchanges) : SmExchanges[i].topic = "next_scenario"
       /\ \A i \in 1..Len(SmExchanges) :
            SmExchanges[i].reply = "finished" <=> i = Len(SmExchanges)
       /\ scenarios_seen = Len(SmExchanges) - 2
       /\ queue0 = ExpectedSpecs(SmExchanges, 2)
       /\ episodes = queue0
  /\ EnumerationDone =>
       /\ chan["sm"].closes = 1
       /\ Len(queue0) = scenarios_seen * config.episodes_per_scenario
       /\ \A i \in 1..Len(queue0) :
            queue0[i].episode_name =
              << queue0[i].scenario.scenario_name, (i - 1) % config.episodes_per_scenario >>
       /\ \A i \in 1..Len(sent) :
            IsToSm(sent[i]) => \E j \in i..Len(sent) : sent[j].reply = "finished"
  /\ ~EnumerationDone => queue0 = << >> /\ pc \notin RunEpisodePcs

\* C16 witness: the scenario maker answered 'loop', 'city' and 'finished';
\* with one episode per scenario get_episodes returned loop-0, city-0.
C16_Witness ==
  /\ JustEnumerated
  /\ config.episodes_per_scenario = 1
  /\ Keys(SmExchanges) = << << "sm", "seed", "" >>, << "sm", "next_scenario", "" >>,
                            << "sm", "next_scenario", "" >>, << "sm", "next_scenario", "" >> >>
  /\ Len(queue0) = 2
  /\ queue0[1].episode_name = EpisodeName("loop", 0)
  /\ queue0[2].episode_name = EpisodeName("city", 0)
  /\ queue0[2].scenario.robots = << Robot("ego", TRUE) >>
  /\ chan["sm"].state = "closed"

PlayableCount(sc) == Cardinality({ i \in 1..Len(sc.robots) : sc.robots[i].playable })
CountMismatch == PlayableCount(scenario) # Len(agents)
AtCountCheck ==
  /\ pc = "while_episodes"
  /\ episodes # << >>
  /\ nfailures < config.max_failures

\* C17: when an attempt is about to start on a scenario whose number of
\* playable robots differs from the number of agents, the run ends in that
\* step with a fatal error: no message of the episode has been sent, the queue
\* and the failure counter are as before, the attempt is not judged and no
\* step follows; an episode runs only with as many playable robots as agents.
C17_CountMismatch ==
  /\ [][ (AtCountCheck /\ CountMismatch) =>
           /\ pc' = "raised"
           /\ cause' = [site |-> "count mismatch", kind |-> "Exception"]
           /\ error' = "InvalidEvaluator"
           /\ sent' = << >>
           /\ episodes' = episodes
           /\ nfailures' = nfailures
           /\ attempt_i' = attempt_i
           /\ history' = history ]_vars
  /\ []((pc = "raised" /\ cause.site = "count mismatch") =>
           /\ CountMismatch
           /\ sent = << >>
           /\ nfailures = Count(history, Rejected)
           /\ \A i \in 1..Len(history) : history[i].attempt < attempt_i)
  /\ [](pc \in RunEpisodePcs => ~CountMismatch)
  /\ [][pc # "raised"]_vars

\* C17 witness: 'city-0' was accepted; the next spec is on the scenario with
\* two playable robots, and the run ended at the count check.
C17_Witness ==
  /\ pc = "raised"
  /\ cause.site = "count mismatch"
  /\ scenario.scenario_name = "duel"
  /\ Len(history) = 1
  /\ history[1].accepted
  /\ nfailures = 0
  /\ sent = << >>

AcceptedAttempt(n, a) ==
  \E i \in 1..Len(history) :
    history[i].name = n /\ history[i].attempt = a /\ history[i].accepted
PerEpisodeOfAccepted ==
  /\ { e.name : e \in per_episode } = QueueNames
  /\ \A e, f \in per_episode : e.name = f.name => e = f
  /\ \A e \in per_episode : AcceptedAttempt(e.name, e.attempt)

\* C18 as stated: when main has returned normally, the reported per-episodes
\* mapping has exactly one entry per episode name of the original queue, each
\* holding the statistics of an accepted attempt of that name; when the run
\* has failed, and before the run has ended, no score has been reported.
C18_ReportedStats ==
  /\ pc = "returned" =>
       /\ Score("per-episodes", "", per_episode) \in scores
       /\ PerEpisodeOfAccepted
  /\ pc # "returned" => scores = {}

AttemptSites == RunEpisodeSites \cup {"count mismatch", "read_and_draw", "make_video1"}
\* attempts started so far: those judged, and the one under way or cut short
AttemptsStarted ==
  IF \/ pc \in RunEpisodePcs \cup {"read_and_draw", "judge"}
     \/ pc = "raised" /\ cause.site \in AttemptSites
  THEN attempt_i + 1 ELSE attempt_i

\* C19: the attempts started never exceed the number of specs get_episodes
\* returned plus max_failures; judging an attempt either removes the head of
\* the queue or adds one to nfailures; main eventually ends, and when it
\* returns normally the queue is empty.
C19_BoundedProgress ==
  /\ [](AttemptsStarted <= Len(queue0) + config.max_failures)
  /\ [][ pc = "judge" =>
           \/ episodes' = Tail(episodes) /\ nfailures' = nfailures
           \/ episodes' = episodes /\ nfailures' = nfailures + 1 ]_vars
  /\ [](pc = "returned" => episodes = << >>)
  /\ <>Ended

\* C19 witness: with two specs and max_failures = 2 the first spec was
\* rejected once and both were accepted: three attempts, and main returned.
C19_Witness ==
  /\ pc = "returned"
  /\ Len(queue0) = 2
  /\ config.max_failures = 2
  /\ attempt_i = 3
  /\ nfailures = 1

\* C20 as stated: at most one log write handle is open at any time, and when
\* main has returned or raised every handle opened for an attempt has been
\* closed.
C20_LogHandles ==
  /\ Cardinality(fw_open) <= 1
  /\ Ended => fw_open = {}

====
